---------------------------- MODULE Spec2Model ----------------------------
(***************************************************************************)
(* Model of ipfw-blessed-tui.py: the IpfwTUI session loop (run), its key   *)
(* handlers, the rule fetch (get_ipfw_rules), the command dispatcher       *)
(* (execute_ipfw_command) and the entry point (main).                      *)
(*                                                                         *)
(* Text that the code takes apart (listing output, rule numbers, rule      *)
(* bodies, the command string) is a sequence of one-character strings.     *)
(* The status message is only tested for emptiness and drawn, so it is a   *)
(* sequence of text chunks whose concatenation is the message.             *)
(***************************************************************************)
EXTENDS Integers, Sequences, FiniteSets, TLC

(* ------------------------------ bounds -------------------------------- *)

\* most keys one session handles
MaxKeys == 5

\* longest listing output given to the parser
MaxOut == 8

(* ----------------------------- constants ------------------------------ *)

\* rows of the terminal not available to the rule list (term.height - 6)
ReservedRows == 6

\* terminal heights: fewer rows than reserved, and one visible row
Heights == {5, 7}

\* values of sys.platform
Platforms == {"freebsd", "freebsd14", "linux"}

Whitespace == {" ", "\t", "\n", "\r"}

\* characters the operator can type (a Keystroke whose code is None)
Chars == {"q", "Q", "a", "d", "e", " "}

\* keys that carry a key code
KEY_UP == "KEY_UP"
KEY_DOWN == "KEY_DOWN"
KEY_ENTER == "KEY_ENTER"
KEY_ESCAPE == "KEY_ESCAPE"
KEY_BACKSPACE == "KEY_BACKSPACE"
KEY_LEFT == "KEY_LEFT"

\* str.lower() on one typed character
Lower(c) == IF c = "Q" THEN "q" ELSE c

(* ------------------------- text (str methods) -------------------------- *)

RECURSIVE LStrip(_)
\* the text without its leading whitespace
LStrip(s) ==
    IF s = <<>> THEN <<>>
    ELSE IF Head(s) \in Whitespace THEN LStrip(Tail(s)) ELSE s

RECURSIVE TakeToken(_)
\* the longest whitespace-free prefix
TakeToken(s) ==
    IF s = <<>> \/ Head(s) \in Whitespace THEN <<>>
    ELSE <<Head(s)>> \o TakeToken(Tail(s))

\* what follows the longest whitespace-free prefix
DropToken(s) == SubSeq(s, Len(TakeToken(s)) + 1, Len(s))

RECURSIVE Split(_)
\* str.split(): the whitespace-delimited tokens, in order
Split(s) ==
    LET t == LStrip(s)
    IN  IF t = <<>> THEN <<>>
        ELSE <<TakeToken(t)>> \o Split(DropToken(t))

\* SplitMax1 with a fault: split() without maxsplit, every token on its own
SplitEveryToken(s) == Split(s)

\* str.split(maxsplit=1): the first token and the remainder after the
\* whitespace run that follows it (no second part when nothing remains)
SplitMax1(s) ==
    LET t == LStrip(s)
        r == LStrip(DropToken(t))
    IN  IF t = <<>> THEN <<>>
        ELSE IF r = <<>> THEN <<TakeToken(t)>>
        ELSE <<TakeToken(t), r>>

\* truth value of str.strip(): some character is not whitespace
StripNonEmpty(s) == \E i \in 1..Len(s) : s[i] \notin Whitespace

RECURSIVE SplitLines(_)
\* str.split('\n'): the pieces between newline characters
SplitLines(s) ==
    LET IsNL(i) == s[i] = "\n"
        nls == {i \in 1..Len(s) : IsNL(i)}
    IN  IF nls = {} THEN <<s>>
        ELSE LET k == CHOOSE i \in nls : \A j \in nls : i <= j
             IN  <<SubSeq(s, 1, k - 1)>> \o SplitLines(SubSeq(s, k + 1, Len(s)))

(* --------------------- the external tool (ipfw) ------------------------ *)

Ipfw == <<"i", "p", "f", "w">>

\* one line of `ipfw list` output
ListingLine(number, body) == number \o <<" ">> \o body \o <<"\n">>

\* listing outputs the firewall can hold at start or after an operator command
Listings ==
    { <<>>,
      ListingLine(<<"1">>, <<"a">>),
      ListingLine(<<"1">>, <<"a">>) \o ListingLine(<<"2">>, <<"b">>) }

\* ways a child process can end: exit 0, non-zero exit (CalledProcessError),
\* or no launch at all (OSError: the tool is absent or cannot be executed)
Outcomes == {"ok", "CalledProcessError", "OSError"}

RECURSIVE WithoutRule(_, _)
\* the listing after `ipfw delete <number>` succeeded
WithoutRule(listing, number) ==
    IF listing = <<>> THEN <<>>
    ELSE LET lines == SplitLines(listing)
             first == lines[1]
             rest == SubSeq(listing, Len(first) + 2, Len(listing))
             toks == Split(first)
         IN  IF toks # <<>> /\ toks[1] = number
             THEN WithoutRule(rest, number)
             ELSE first \o <<"\n">> \o WithoutRule(rest, number)

(* ------------------------------ state ---------------------------------- *)

VARIABLES
    pc,               \* "main", "fetch" (top of the loop), "inkey", "exit"
    term_mode,        \* "normal" or "fullscreen" (fullscreen, cbreak, hidden cursor)
    raised,           \* exception that left run(), or "none"
    exit_code,        \* process exit status once pc = "exit", else -1
    world,            \* the listing `ipfw list` would print now
    height,           \* term.height
    current_rules,
    selected_index,
    command_mode,
    command_string,
    status_message,
    scroll_offset,
    command_history,
    history_index,
    shown_status,     \* status message drawn by the last draw_screen
    keys,             \* number of keys handled so far
    invoked,          \* argument vectors the last key passed to subprocess.run
    last_exec         \* how the last key's invocation ended, or "none"

session == <<current_rules, selected_index, command_mode, command_string,
             status_message, scroll_offset, command_history, history_index>>

vars == <<pc, term_mode, raised, exit_code, world, height, current_rules,
          selected_index, command_mode, command_string, status_message,
          scroll_offset, command_history, history_index, shown_status,
          keys, invoked, last_exec>>

(* --------------------------- pure helpers ------------------------------ *)

RECURSIVE ParseLines(_)
\* the loop over output lines in get_ipfw_rules
ParseLines(lines) ==
    IF lines = <<>> THEN <<>>
    ELSE LET line == Head(lines)
             parts == SplitMax1(line)
         IN  (IF StripNonEmpty(line) /\ Len(parts) >= 2
              THEN <<[number |-> parts[1], rule |-> parts[2]]>>
              ELSE <<>>) \o ParseLines(Tail(lines))

\* exceptions of the listing child that get_ipfw_rules catches
FetchCaught == {"CalledProcessError"}

\* exceptions of the command child that execute_ipfw_command catches
ExecCaught == {"CalledProcessError"}

\* the value get_ipfw_rules returns when it returns
get_ipfw_rules(outcome, output) ==
    IF outcome = "ok" THEN ParseLines(SplitLines(output)) ELSE <<>>

\* HistoryAfter with a fault: blank commands enter the history too
HistoryAfterBlank(history, command, outcome) ==
    IF outcome = "ok" THEN Append(history, command) ELSE history

\* the history after execute_ipfw_command(command) ended with outcome
HistoryAfter(history, command, outcome) ==
    IF outcome = "ok" /\ StripNonEmpty(command)
    THEN Append(history, command)
    ELSE history

\* f"delete {rule_num}"
DeleteCommand(number) == <<"d", "e", "l", "e", "t", "e", " ">> \o number

\* f"delete {rule['number']} && add {rule['rule']}"
EditTemplate(r) ==
    DeleteCommand(r.number) \o <<" ", "&", "&", " ", "a", "d", "d", " ">> \o r.rule

\* ["ipfw"] + command.split()
Argv(command) == <<Ipfw>> \o Split(command)

\* status texts
NoStatus == <<>>
StatusExecuted == <<"Command executed successfully">>
StatusExecError == <<"Error executing command">>
StatusDeleted(number) == <<"Deleted rule ">> \o number
StatusDeleteError == <<"Error deleting rule">>

\* KEY_UP in Browsing: the new selected_index
UpIndex(sel) == IF sel > 0 THEN sel - 1 ELSE sel

\* KEY_UP in Browsing: the new scroll_offset
UpScroll(sel, scroll) ==
    IF sel > 0 /\ sel - 1 < scroll THEN sel - 1 ELSE scroll

\* KEY_DOWN in Browsing: the new selected_index
DownIndex(sel, n) == IF sel < n - 1 THEN sel + 1 ELSE sel

\* DownScroll with a fault: the window scrolls one step too late (> for >=)
DownScrollLate(sel, scroll, n, h) ==
    IF sel < n - 1 /\ sel + 1 > scroll + (h - ReservedRows)
    THEN scroll + 1
    ELSE scroll

\* DownScroll with a fault: the window scrolls although the index stays
DownScrollUnguarded(sel, scroll, n, h) ==
    IF sel + 1 >= scroll + (h - ReservedRows) THEN scroll + 1 ELSE scroll

\* KEY_DOWN in Browsing: the new scroll_offset
DownScroll(sel, scroll, n, h) ==
    IF sel < n - 1 /\ sel + 1 >= scroll + (h - ReservedRows)
    THEN scroll + 1
    ELSE scroll

\* draw_screen: the indices of the rules it prints, the slice
\* current_rules[scroll : scroll + available_height] cut off at the first row
\* with screen_idx >= term.height - 3
DrawnIndices(scroll, n, h) ==
    LET available_height == h - ReservedRows
        start == IF scroll > n THEN n ELSE scroll
        raw == scroll + available_height
        wrapped == IF raw < 0 THEN (IF raw + n < 0 THEN 0 ELSE raw + n) ELSE raw
        stop == IF wrapped > n THEN n ELSE wrapped
    IN  {scroll + idx : idx \in {i \in 0..(stop - start - 1) : i + 3 < h - 3}}

\* the last statement of the loop body: if not command_mode, clear the status
EndOfIteration(mode, status) == IF ~mode THEN NoStatus ELSE status

\* ScopeExit with a fault: the terminal mode is not restored
ScopeExitLeak == "fullscreen"

\* terminal mode once the with-block of run() has been left
ScopeExit == "normal"

\* exit status main() ends with after exception e left run()
ExitStatus(e) == IF e \in {"none", "KeyboardInterrupt"} THEN 0 ELSE 1

\* listings the firewall may hold after the command child ended with outcome
WorldsAfter(listing, command, outcome) ==
    LET args == Split(command)
    IN  IF outcome # "ok" THEN {listing}
        ELSE IF Len(args) = 2 /\ args[1] = <<"d", "e", "l", "e", "t", "e">>
        THEN {WithoutRule(listing, args[2])}
        ELSE Listings \cup {listing}

(* ------------------------------- Init ---------------------------------- *)

\* IpfwTUI.__init__, before main() has looked at the platform
Init ==
    /\ pc = "main"
    /\ term_mode = "normal"
    /\ raised = "none"
    /\ exit_code = -1
    /\ world \in Listings
    /\ height \in Heights
    /\ current_rules = <<>>
    /\ selected_index = 0
    /\ command_mode = FALSE
    /\ command_string = <<>>
    /\ status_message = NoStatus
    /\ scroll_offset = 0
    /\ command_history = <<>>
    /\ history_index = 0
    /\ shown_status = NoStatus
    /\ keys = 0
    /\ invoked = <<>>
    /\ last_exec = "none"

(* ------------------------------ actions -------------------------------- *)

\* an exception e leaves the with-block of run() and reaches main()
RaiseOut(e) ==
    /\ pc' = "exit"
    /\ term_mode' = ScopeExit
    /\ raised' = e
    /\ exit_code' = ExitStatus(e)

\* LoopOn with a fault: the next key is read without a new fetch and render
LoopOnWithoutFetch ==
    /\ pc' = "inkey"
    /\ UNCHANGED <<term_mode, raised, exit_code>>

\* the loop goes on to its next iteration
LoopOn ==
    /\ pc' = "fetch"
    /\ UNCHANGED <<term_mode, raised, exit_code>>

\* main(): the platform test, then entering the with-block of run()
Main ==
    /\ pc = "main"
    /\ \E platform \in Platforms :
          IF platform # "freebsd"
          THEN /\ pc' = "exit"
               /\ exit_code' = 1
               /\ UNCHANGED term_mode
          ELSE /\ pc' = "fetch"
               /\ term_mode' = "fullscreen"
               /\ UNCHANGED exit_code
    /\ UNCHANGED <<raised, world, height, session, shown_status, keys,
                   invoked, last_exec>>

\* top of the loop: get_ipfw_rules() and draw_screen(), the listing child
\* ending with outcome
FetchWith(outcome) ==
    /\ pc = "fetch"
    /\ IF outcome = "ok" \/ outcome \in FetchCaught
       THEN /\ current_rules' = get_ipfw_rules(outcome, world)
            /\ shown_status' = status_message
            /\ pc' = "inkey"
            /\ UNCHANGED <<term_mode, raised, exit_code>>
       ELSE /\ RaiseOut(outcome)
            /\ UNCHANGED <<current_rules, shown_status>>
    /\ UNCHANGED <<world, height, selected_index, command_mode, command_string,
                   status_message, scroll_offset, command_history,
                   history_index, keys, invoked, last_exec>>

Fetch == \E outcome \in Outcomes : FetchWith(outcome)

\* the operator's interrupt (KeyboardInterrupt) while the loop runs
Interrupt ==
    /\ pc \in {"fetch", "inkey"}
    /\ RaiseOut("KeyboardInterrupt")
    /\ UNCHANGED <<world, height, session, shown_status, keys, invoked,
                   last_exec>>

\* term.inkey() returns a key
KeyRead ==
    /\ pc = "inkey"
    /\ keys < MaxKeys
    /\ keys' = keys + 1

\* a key that runs no command
NoCommand ==
    /\ invoked' = <<>>
    /\ last_exec' = "none"
    /\ UNCHANGED <<world, height, shown_status>>

\* Browsing: q or Q breaks out of the loop
BrowseQuit ==
    /\ KeyRead /\ ~command_mode
    /\ \E k \in Chars : Lower(k) = "q"
    /\ NoCommand
    /\ pc' = "exit"
    /\ term_mode' = ScopeExit
    /\ exit_code' = ExitStatus("none")
    /\ UNCHANGED <<raised, session>>

\* Browsing: KEY_UP
BrowseUp ==
    /\ KeyRead /\ ~command_mode
    /\ NoCommand
    /\ selected_index' = UpIndex(selected_index)
    /\ scroll_offset' = UpScroll(selected_index, scroll_offset)
    /\ status_message' = EndOfIteration(command_mode, status_message)
    /\ LoopOn
    /\ UNCHANGED <<current_rules, command_mode, command_string,
                   command_history, history_index>>

\* Browsing: KEY_DOWN
BrowseDown ==
    /\ KeyRead /\ ~command_mode
    /\ NoCommand
    /\ selected_index' = DownIndex(selected_index, Len(current_rules))
    /\ scroll_offset' = DownScroll(selected_index, scroll_offset,
                                   Len(current_rules), height)
    /\ status_message' = EndOfIteration(command_mode, status_message)
    /\ LoopOn
    /\ UNCHANGED <<current_rules, command_mode, command_string,
                   command_history, history_index>>

\* Browsing: a
BrowseAdd ==
    /\ KeyRead /\ ~command_mode
    /\ NoCommand
    /\ command_mode' = TRUE
    /\ command_string' = <<>>
    /\ history_index' = Len(command_history)
    /\ status_message' = EndOfIteration(command_mode', status_message)
    /\ LoopOn
    /\ UNCHANGED <<current_rules, selected_index, scroll_offset,
                   command_history>>

\* Browsing: d
BrowseDelete ==
    /\ KeyRead /\ ~command_mode
    /\ UNCHANGED <<height, shown_status, current_rules, selected_index,
                   command_mode, command_string, scroll_offset, history_index>>
    /\ IF current_rules = <<>>
       THEN /\ invoked' = <<>>
            /\ last_exec' = "none"
            /\ status_message' = EndOfIteration(command_mode, status_message)
            /\ LoopOn
            /\ UNCHANGED <<world, command_history>>
       ELSE IF selected_index >= Len(current_rules)
       THEN \* current_rules[selected_index] raises IndexError
            /\ invoked' = <<>>
            /\ last_exec' = "none"
            /\ RaiseOut("IndexError")
            /\ UNCHANGED <<world, command_history, status_message>>
       ELSE LET rule_num == current_rules[selected_index + 1].number
                command == DeleteCommand(rule_num)
            IN  \E outcome \in Outcomes :
                  /\ invoked' = <<Argv(command)>>
                  /\ last_exec' = outcome
                  /\ IF outcome = "ok" \/ outcome \in ExecCaught
                     THEN /\ command_history' =
                                HistoryAfter(command_history, command, outcome)
                          /\ world' \in WorldsAfter(world, command, outcome)
                          /\ status_message' =
                                EndOfIteration(command_mode,
                                    IF outcome = "ok"
                                    THEN StatusDeleted(rule_num)
                                    ELSE StatusDeleteError)
                          /\ LoopOn
                     ELSE /\ RaiseOut(outcome)
                          /\ UNCHANGED <<world, command_history, status_message>>

\* Browsing: e
BrowseEdit ==
    /\ KeyRead /\ ~command_mode
    /\ NoCommand
    /\ UNCHANGED <<current_rules, selected_index, scroll_offset,
                   command_history>>
    /\ IF current_rules = <<>>
       THEN /\ status_message' = EndOfIteration(command_mode, status_message)
            /\ LoopOn
            /\ UNCHANGED <<command_mode, command_string, history_index>>
       ELSE IF selected_index >= Len(current_rules)
       THEN \* current_rules[selected_index] raises IndexError
            /\ RaiseOut("IndexError")
            /\ UNCHANGED <<command_mode, command_string, history_index,
                           status_message>>
       ELSE /\ command_mode' = TRUE
            /\ command_string' = EditTemplate(current_rules[selected_index + 1])
            /\ history_index' = Len(command_history)
            /\ status_message' = EndOfIteration(command_mode', status_message)
            /\ LoopOn

\* Browsing: any other key
BrowseOther ==
    /\ KeyRead /\ ~command_mode
    /\ \E k \in Chars \cup {KEY_ENTER, KEY_ESCAPE, KEY_BACKSPACE, KEY_LEFT} :
          Lower(k) \notin {"q", "a", "d", "e"}
    /\ NoCommand
    /\ status_message' = EndOfIteration(command_mode, status_message)
    /\ LoopOn
    /\ UNCHANGED <<current_rules, selected_index, command_mode, command_string,
                   scroll_offset, command_history, history_index>>

\* CommandEntry: KEY_ENTER (handle_command_input returns True: continue)
CmdEnter ==
    /\ KeyRead /\ command_mode
    /\ UNCHANGED <<height, shown_status, current_rules, selected_index,
                   scroll_offset, history_index>>
    /\ \E outcome \in Outcomes :
          /\ invoked' = <<Argv(command_string)>>
          /\ last_exec' = outcome
          /\ IF outcome = "ok" \/ outcome \in ExecCaught
             THEN /\ command_history' =
                        HistoryAfter(command_history, command_string, outcome)
                  /\ world' \in WorldsAfter(world, command_string, outcome)
                  /\ status_message' =
                        IF outcome = "ok" THEN StatusExecuted
                        ELSE StatusExecError
                  /\ command_mode' = FALSE
                  /\ command_string' = <<>>
                  /\ LoopOn
             ELSE /\ RaiseOut(outcome)
                  /\ UNCHANGED <<world, command_history, status_message,
                                 command_mode, command_string>>

\* CmdEscape with a fault: Escape leaves the mode but keeps the buffer
CmdEscapeKeepsBuffer ==
    /\ KeyRead /\ command_mode
    /\ NoCommand
    /\ command_mode' = FALSE
    /\ LoopOn
    /\ UNCHANGED <<current_rules, selected_index, command_string,
                   status_message, scroll_offset, command_history,
                   history_index>>

\* CmdEscape with a fault: Escape runs the buffer before it leaves, as Enter does
CmdEscapeRuns ==
    /\ KeyRead /\ command_mode
    /\ invoked' = <<Argv(command_string)>>
    /\ last_exec' = "ok"
    /\ command_mode' = FALSE
    /\ command_string' = <<>>
    /\ LoopOn
    /\ UNCHANGED <<world, height, shown_status, current_rules, selected_index,
                   status_message, scroll_offset, command_history,
                   history_index>>

\* CommandEntry: KEY_ESCAPE (handle_command_input returns True: continue)
CmdEscape ==
    /\ KeyRead /\ command_mode
    /\ NoCommand
    /\ command_mode' = FALSE
    /\ command_string' = <<>>
    /\ LoopOn
    /\ UNCHANGED <<current_rules, selected_index, status_message,
                   scroll_offset, command_history, history_index>>

\* CommandEntry: KEY_BACKSPACE
CmdBackspace ==
    /\ KeyRead /\ command_mode
    /\ NoCommand
    /\ command_string' = SubSeq(command_string, 1, Len(command_string) - 1)
    /\ status_message' = EndOfIteration(command_mode, status_message)
    /\ LoopOn
    /\ UNCHANGED <<current_rules, selected_index, command_mode, scroll_offset,
                   command_history, history_index>>

\* CommandEntry: KEY_UP
CmdUp ==
    /\ KeyRead /\ command_mode
    /\ NoCommand
    /\ IF command_history # <<>> /\ history_index > 0
       THEN /\ history_index' = history_index - 1
            /\ command_string' = command_history[history_index' + 1]
       ELSE UNCHANGED <<history_index, command_string>>
    /\ status_message' = EndOfIteration(command_mode, status_message)
    /\ LoopOn
    /\ UNCHANGED <<current_rules, selected_index, command_mode, scroll_offset,
                   command_history>>

\* CmdDown with a fault: down at the last entry wraps round to the first
CmdDownWraps ==
    /\ KeyRead /\ command_mode
    /\ NoCommand
    /\ IF command_history # <<>>
       THEN /\ history_index' =
                  IF history_index < Len(command_history) - 1
                  THEN history_index + 1 ELSE 0
            /\ command_string' = command_history[history_index' + 1]
       ELSE UNCHANGED <<history_index, command_string>>
    /\ status_message' = EndOfIteration(command_mode, status_message)
    /\ LoopOn
    /\ UNCHANGED <<current_rules, selected_index, command_mode, scroll_offset,
                   command_history>>

\* CommandEntry: KEY_DOWN
CmdDown ==
    /\ KeyRead /\ command_mode
    /\ NoCommand
    /\ IF command_history # <<>> /\ history_index < Len(command_history) - 1
       THEN /\ history_index' = history_index + 1
            /\ command_string' = command_history[history_index' + 1]
       ELSE UNCHANGED <<history_index, command_string>>
    /\ status_message' = EndOfIteration(command_mode, status_message)
    /\ LoopOn
    /\ UNCHANGED <<current_rules, selected_index, command_mode, scroll_offset,
                   command_history>>

\* CommandEntry: a regular character (key.code is None)
CmdChar ==
    /\ KeyRead /\ command_mode
    /\ NoCommand
    /\ \E c \in Chars : command_string' = Append(command_string, c)
    /\ status_message' = EndOfIteration(command_mode, status_message)
    /\ LoopOn
    /\ UNCHANGED <<current_rules, selected_index, command_mode, scroll_offset,
                   command_history, history_index>>

\* CommandEntry: any other key that carries a code
CmdOther ==
    /\ KeyRead /\ command_mode
    /\ NoCommand
    /\ status_message' = EndOfIteration(command_mode, status_message)
    /\ LoopOn
    /\ UNCHANGED <<current_rules, selected_index, command_mode, command_string,
                   scroll_offset, command_history, history_index>>

(* --------------------------- specification ----------------------------- *)

Next ==
    \/ Main
    \/ Fetch
    \/ Interrupt
    \/ BrowseQuit
    \/ BrowseUp
    \/ BrowseDown
    \/ BrowseAdd
    \/ BrowseDelete
    \/ BrowseEdit
    \/ BrowseOther
    \/ CmdEnter
    \/ CmdEscape
    \/ CmdBackspace
    \/ CmdUp
    \/ CmdDown
    \/ CmdChar
    \/ CmdOther

Spec == Init /\ [][Next]_vars

(* ------------- navigation over a fixed rule list (C7) ------------------ *)

\* non-empty listings of one, two and three rules
NavListings ==
    { ListingLine(<<"1">>, <<"a">>),
      ListingLine(<<"1">>, <<"a">>) \o ListingLine(<<"2">>, <<"b">>),
      ListingLine(<<"1">>, <<"a">>) \o ListingLine(<<"2">>, <<"b">>)
          \o ListingLine(<<"3">>, <<"c">>) }

\* terminal heights from fewer rows than reserved up to room for every rule
NavHeights == 4..9

\* run() entered on the target platform, before the first fetch
NavInit ==
    /\ pc = "fetch"
    /\ term_mode = "fullscreen"
    /\ raised = "none"
    /\ exit_code = -1
    /\ world \in NavListings
    /\ height \in NavHeights
    /\ current_rules = <<>>
    /\ selected_index = 0
    /\ command_mode = FALSE
    /\ command_string = <<>>
    /\ status_message = NoStatus
    /\ scroll_offset = 0
    /\ command_history = <<>>
    /\ history_index = 0
    /\ shown_status = NoStatus
    /\ keys = 0
    /\ invoked = <<>>
    /\ last_exec = "none"

\* every fetch succeeds and the operator presses only up and down
NavNext ==
    \/ FetchWith("ok")
    \/ BrowseUp
    \/ BrowseDown

NavSpec == NavInit /\ [][NavNext]_vars

(* -------------- a session with two commands in its history ------------ *)

\* every step of the loop (Next without the entry through main)
SessionNext ==
    \/ Fetch
    \/ Interrupt
    \/ BrowseQuit
    \/ BrowseUp
    \/ BrowseDown
    \/ BrowseAdd
    \/ BrowseDelete
    \/ BrowseEdit
    \/ BrowseOther
    \/ CmdEnter
    \/ CmdEscape
    \/ CmdBackspace
    \/ CmdUp
    \/ CmdDown
    \/ CmdChar
    \/ CmdOther

\* the state Spec reaches from the two-rule listing by d, d (both exit 0),
\* at the top of the loop; keys counts the keys handled from here on
HistInit ==
    /\ pc = "fetch"
    /\ term_mode = "fullscreen"
    /\ raised = "none"
    /\ exit_code = -1
    /\ world = <<>>
    /\ height \in Heights
    /\ current_rules = <<[number |-> <<"2">>, rule |-> <<"b">>]>>
    /\ selected_index = 0
    /\ command_mode = FALSE
    /\ command_string = <<>>
    /\ status_message = NoStatus
    /\ scroll_offset = 0
    /\ command_history = <<DeleteCommand(<<"1">>), DeleteCommand(<<"2">>)>>
    /\ history_index = 0
    /\ shown_status = NoStatus
    /\ keys = 0
    /\ invoked = <<Argv(DeleteCommand(<<"2">>))>>
    /\ last_exec = "ok"

HistSpec == HistInit /\ [][SessionNext]_vars

(* ---------------- parsing of arbitrary listing output ------------------ *)

\* characters of a listing: a digit, a letter, the blank and the newline
ParseChars == {"1", "a", " ", "\n"}

\* every listing output of at most MaxOut characters
ParseOutputs == UNION {[1..k -> ParseChars] : k \in 0..MaxOut}

\* run() at the top of its first iteration, the tool about to print any output
ParseInit ==
    /\ pc = "fetch"
    /\ term_mode = "fullscreen"
    /\ raised = "none"
    /\ exit_code = -1
    /\ world \in ParseOutputs
    /\ height = 7
    /\ current_rules = <<>>
    /\ selected_index = 0
    /\ command_mode = FALSE
    /\ command_string = <<>>
    /\ status_message = NoStatus
    /\ scroll_offset = 0
    /\ command_history = <<>>
    /\ history_index = 0
    /\ shown_status = NoStatus
    /\ keys = 0
    /\ invoked = <<>>
    /\ last_exec = "none"

\* the listing child exits 0 and its output is parsed
ParseNext == FetchWith("ok")

ParseSpec == ParseInit /\ [][ParseNext]_vars

(* ------------------------------ claims --------------------------------- *)

\* C1: whenever the fetched rule list is non-empty, the selected index is an
\* index of it: 0 <= selected_index < len(current_rules).
C1_SelectedIndexInRange ==
    current_rules # <<>> =>
        (0 <= selected_index /\ selected_index < Len(current_rules))

\* C2: d in Browsing with a non-empty rule list passes exactly one argument
\* vector to the external tool, `delete <number>` of the rule at
\* selected_index; d with an empty rule list runs nothing.
C2_DeleteIssuesExactlyOne ==
    [][BrowseDelete =>
         IF current_rules = <<>>
         THEN invoked' = <<>>
         ELSE /\ selected_index + 1 \in DOMAIN current_rules
              /\ invoked' = <<Argv(DeleteCommand(
                                current_rules[selected_index + 1].number))>>]_vars

\* C3: at every render that follows a command, the status line drawn is a
\* failure message if the command exited non-zero and a success message if
\* it exited zero, whether d or Enter ran the command.
C3_CommandOutcomeShown ==
    (pc = "inkey" /\ invoked # <<>>) =>
        /\ (last_exec = "CalledProcessError" =>
                shown_status \in {StatusExecError, StatusDeleteError})
        /\ (last_exec = "ok" =>
                shown_status # NoStatus /\
                shown_status \notin {StatusExecError, StatusDeleteError})

\* C4: Escape in CommandEntry returns to Browsing with an empty status
\* message, whatever keys came before.
C4_EscapeClearsStatus ==
    [][CmdEscape => status_message' = NoStatus]_vars

\* C5: a fetch never ends the loop: whatever way the listing child ends, the
\* rule list is the parsed listing or empty and the session waits for a key.
C5_FetchNeverFatal ==
    [][Fetch =>
         /\ pc' = "inkey"
         /\ raised' = "none"
         /\ current_rules' \in {<<>>, get_ipfw_rules("ok", world)}]_vars

\* C6: a command that does not succeed (non-zero exit, or the tool could not
\* be launched) never ends the loop: the next iteration starts.
C6_CommandFailureNotFatal ==
    [][((BrowseDelete \/ CmdEnter) /\ invoked' # <<>> /\ last_exec' # "ok") =>
         (pc' = "fetch" /\ raised' = "none")]_vars

\* C7 (state part): with a rule list fetched, 0 <= scroll_offset <=
\* selected_index < len(current_rules).
NavInRange ==
    current_rules # <<>> =>
        /\ 0 <= scroll_offset
        /\ scroll_offset <= selected_index
        /\ selected_index < Len(current_rules)

\* C7 (step part): up at index 0 and down at the last index leave
\* selected_index where it is; otherwise it moves by exactly one.
NavClamped ==
    /\ BrowseUp =>
          selected_index' = IF selected_index = 0 THEN 0 ELSE selected_index - 1
    /\ BrowseDown =>
          selected_index' = IF selected_index = Len(current_rules) - 1
                            THEN selected_index ELSE selected_index + 1

\* C7: for a fixed non-empty rule list and any terminal height, after any
\* sequence of up/down keys 0 <= scroll_offset <= selected_index <
\* len(current_rules), and the index is clamped at both ends (no wraparound).
C7_NavigationInRange == []NavInRange /\ [][NavClamped]_vars

\* C7 witness: the selection was moved down to the last of three rules and
\* the window scrolled after it.
C7_Witness ==
    /\ Len(current_rules) = 3
    /\ selected_index = 2
    /\ scroll_offset > 0
    /\ keys >= 3

\* C8: the terminal mode is held while the loop runs and is released on
\* every way out of it (q, interrupt, uncaught exception); an interrupt ends
\* the program with exit status 0.
C8_TerminalReleased ==
    /\ (pc \in {"fetch", "inkey"} => term_mode = "fullscreen")
    /\ (pc = "exit" => term_mode = "normal")
    /\ ((pc = "exit" /\ raised = "KeyboardInterrupt") => exit_code = 0)

\* C8 witness: an interrupt ended the loop after keys were handled, the
\* terminal mode is restored and the exit status is 0.
C8_Witness ==
    /\ pc = "exit"
    /\ raised = "KeyboardInterrupt"
    /\ term_mode = "normal"
    /\ exit_code = 0
    /\ keys > 0

\* C9: e in Browsing with a non-empty rule list enters CommandEntry with the
\* buffer `delete <number> && add <text>` of the rule at selected_index, runs
\* nothing and sets history_index to len(command_history); e with an empty
\* rule list leaves mode, buffer, cursor, selection and history as they are.
C9_EditPrefills ==
    [][BrowseEdit =>
         /\ invoked' = <<>>
         /\ UNCHANGED <<selected_index, scroll_offset, command_history>>
         /\ IF current_rules = <<>>
            THEN UNCHANGED <<command_mode, command_string, history_index>>
            ELSE /\ selected_index + 1 \in DOMAIN current_rules
                 /\ command_mode'
                 /\ command_string' =
                        EditTemplate(current_rules[selected_index + 1])
                 /\ history_index' = Len(command_history)]_vars

\* what a step appends to the history according to C10
C10_Appended ==
    IF CmdEnter /\ last_exec' = "ok" /\ StripNonEmpty(command_string)
    THEN <<command_string>>
    ELSE IF BrowseDelete /\ last_exec' = "ok"
    THEN <<DeleteCommand(current_rules[selected_index + 1].number)>>
    ELSE <<>>

\* C10: the history changes only by a successful execute of a non-blank
\* command (Enter or d), which appends exactly the raw command text as the
\* last entry; every other step leaves the history as it is.
C10_HistoryAppendOnly ==
    [][command_history' = command_history \o C10_Appended]_vars

\* C10 witness: one successful non-blank command is in the history and the
\* last key ran a successful command of no arguments (blank text), which was
\* not appended.
C10_Witness ==
    /\ Len(command_history) = 1
    /\ last_exec = "ok"
    /\ invoked = <<<<Ipfw>>>>


\* C11 (state part): 0 <= history_index <= len(command_history).
HistoryIndexInRange ==
    0 <= history_index /\ history_index <= Len(command_history)

\* C11 (step part): up and down in CommandEntry move the cursor by at most
\* one, up at 0 and down at or past the last entry leave it, and a moved
\* cursor loads command_history[history_index] into the buffer.
HistoryClamped ==
    (CmdUp \/ CmdDown) =>
        /\ CmdUp => history_index' \in {history_index - 1, history_index}
        /\ CmdDown => history_index' \in {history_index, history_index + 1}
        /\ (CmdUp /\ history_index = 0) => history_index' = history_index
        /\ (CmdDown /\ history_index >= Len(command_history) - 1)
              => history_index' = history_index
        /\ history_index' # history_index =>
              /\ history_index' + 1 \in DOMAIN command_history
              /\ command_string' = command_history[history_index' + 1]
        /\ history_index' = history_index => command_string' = command_string

\* C11: in every reachable state 0 <= history_index <= len(command_history);
\* up/down in CommandEntry are clamped without wraparound, and whenever they
\* move the cursor the buffer becomes command_history[history_index].
C11_HistoryCursor == []HistoryIndexInRange /\ [][HistoryClamped]_vars

\* C11 witness: in CommandEntry, after at least four keys (a, up, up, down),
\* the cursor is on the last of two entries and that entry is in the buffer.
C11_Witness ==
    /\ command_mode
    /\ Len(command_history) = 2
    /\ history_index = 1
    /\ command_string = command_history[2]
    /\ keys >= 4

\* a line with at least two whitespace-delimited tokens
TwoTokens(line) == Len(Split(line)) >= 2

\* the part of a two-token line from the first character of its second token
FromSecondToken(line) ==
    LET starts == {i \in 2..Len(line) :
                      /\ line[i] \notin Whitespace
                      /\ line[i - 1] \in Whitespace
                      /\ \E j \in 1..(i - 1) : line[j] \notin Whitespace}
        first == CHOOSE i \in starts : \A j \in starts : i <= j
    IN  SubSeq(line, first, Len(line))

\* C12: the fetched rules are, in the order of the output, one rule per line
\* that has at least two whitespace-delimited tokens, its number the first
\* token and its text the remainder after the first whitespace run; blank
\* lines and one-token lines give no rule.
C12_ParseLines ==
    pc = "inkey" =>
        LET good == SelectSeq(SplitLines(world), TwoTokens)
        IN  /\ Len(current_rules) = Len(good)
            /\ \A k \in 1..Len(good) :
                  /\ current_rules[k].number = Split(good[k])[1]
                  /\ current_rules[k].rule = FromSecondToken(good[k])

\* C12 witness: two rules were parsed in order from an output that also
\* holds a line without a second token.
C12_Witness ==
    /\ pc = "inkey"
    /\ Len(current_rules) = 2
    /\ current_rules[1].number # current_rules[2].number
    /\ \E i \in 1..Len(SplitLines(world)) : ~TwoTokens(SplitLines(world)[i])

\* C13: Enter in CommandEntry passes exactly one argument vector to the
\* external tool, the whitespace split of the buffer (also for the edit
\* template and for the empty buffer), sets the status message by that
\* invocation's success or failure, and leaves the session in Browsing with
\* an empty buffer.
C13_EnterExecutes ==
    [][CmdEnter =>
         /\ invoked' = <<<<Ipfw>> \o Split(command_string)>>
         /\ status_message' = IF last_exec' = "ok" THEN StatusExecuted
                              ELSE StatusExecError
         /\ ~command_mode'
         /\ command_string' = <<>>
         /\ pc' = "fetch"]_vars

\* C14: Escape in CommandEntry runs no external command, leaves the history,
\* the selection and the scroll offset as they are, empties the buffer and
\* returns to Browsing.
C14_EscapeDiscards ==
    [][CmdEscape =>
         /\ invoked' = <<>>
         /\ UNCHANGED <<command_history, selected_index, scroll_offset, world>>
         /\ command_string' = <<>>
         /\ ~command_mode'
         /\ pc' = "fetch"]_vars

\* C14 witness: Browsing was re-entered by a key that ran nothing and left a
\* status message standing, which only Escape does (every Browsing key
\* clears the status, Enter runs a command).
C14_Witness ==
    /\ pc = "fetch"
    /\ ~command_mode
    /\ command_string = <<>>
    /\ invoked = <<>>
    /\ status_message # NoStatus

\* C15: with at least one visible row (height - 6 >= 1) and a fixed
\* non-empty rule list, after any up/down keys the selected rule is inside
\* the drawn window: scroll_offset <= selected_index < scroll_offset +
\* visible rows, and draw_screen prints (and highlights) the selected rule.
C15_SelectionVisible ==
    (current_rules # <<>> /\ height - ReservedRows >= 1) =>
        /\ scroll_offset <= selected_index
        /\ selected_index < scroll_offset + (height - ReservedRows)
        /\ selected_index \in
              DrawnIndices(scroll_offset, Len(current_rules), height)

\* C15 witness: two visible rows, three rules, the last one selected and the
\* window scrolled by one so that it is the second row drawn.
C15_Witness ==
    /\ height - ReservedRows = 2
    /\ Len(current_rules) = 3
    /\ selected_index = 2
    /\ scroll_offset = 1
    /\ DrawnIndices(scroll_offset, Len(current_rules), height) = {1, 2}

\* C16 (state part): whenever the loop waits for a key, the rule list is
\* what the fetch made of the listing as the last command left it (its
\* parse, or empty when the listing child failed).
RulesFetchedAfterCommand ==
    pc = "inkey" =>
        current_rules \in {get_ipfw_rules("ok", world), <<>>}

\* C16 (step part): a key is handled only while waiting for one and leads to
\* the top of the loop or out of it; waiting for a key is entered only from
\* the top of the loop, by a fetch that also draws the current status.
OneFetchPerKey ==
    /\ keys' # keys => (pc = "inkey" /\ pc' \in {"fetch", "exit"})
    /\ (pc' = "inkey" /\ pc # "inkey") =>
          (pc = "fetch" /\ keys' = keys /\ shown_status' = status_message)
    /\ pc = "inkey" => (keys' # keys \/ pc' = "exit")

\* C16: every loop iteration fetches the rules again before it draws and
\* before it reads the next key, on every path through the loop: exactly one
\* fetch lies between two consecutive keys, and no key is handled against a
\* rule list fetched before the most recent command.
C16_FetchEveryIteration ==
    []RulesFetchedAfterCommand /\ [][OneFetchPerKey]_vars

\* C16 witness: d deleted rule 2 of two rules and the loop waits for the next
\* key with the re-fetched one-rule list.
C16_Witness ==
    /\ pc = "inkey"
    /\ last_exec = "ok"
    /\ command_history = <<DeleteCommand(<<"2">>)>>
    /\ Len(current_rules) = 1
    /\ current_rules = get_ipfw_rules("ok", world)

\* C17: in CommandEntry no key changes selected_index or scroll_offset, ends
\* the loop, or (Enter apart) runs a command, and the characters q, a, d, e
\* are appended to the buffer; the loop is ended by a key only through q in
\* Browsing, which runs no command.
C17_ModeIsolation ==
    [][/\ (keys' # keys /\ command_mode) =>
             /\ UNCHANGED <<selected_index, scroll_offset>>
             /\ pc' = "fetch"
             /\ ~CmdEnter => invoked' = <<>>
       /\ CmdChar =>
             \E c \in Chars : command_string' = Append(command_string, c)
       /\ (keys' # keys /\ pc' = "exit") =>
             (BrowseQuit /\ raised' = "none" /\ invoked' = <<>>)]_vars

\* C18 (state part): in Browsing the command buffer is empty.
BrowsingBufferEmpty == ~command_mode => command_string = <<>>

\* C18 (step part): a enters CommandEntry with an empty buffer, and the
\* buffer changes only in CommandEntry or on entering it.
BufferOnlyInCommandEntry ==
    /\ BrowseAdd => (command_mode' /\ command_string' = <<>>)
    /\ command_string' # command_string => (command_mode \/ command_mode')

\* C18: in every reachable state in Browsing the command buffer is empty; it
\* is non-empty only between entering CommandEntry (a or e) and the Enter or
\* Escape that leaves it, and a always enters with an empty buffer.
C18_BufferEmptyInBrowsing ==
    []BrowsingBufferEmpty /\ [][BufferOnlyInCommandEntry]_vars

\* C18 witness: Enter ran the edit template of rule 1 and the session is back
\* in Browsing with the buffer emptied.
C18_Witness ==
    /\ ~command_mode
    /\ command_string = <<>>
    /\ last_exec = "ok"
    /\ invoked = <<Argv(EditTemplate([number |-> <<"1">>, rule |-> <<"a">>]))>>
=============================================================================
